---- MODULE Spec2Model ----
(***************************************************************************)
(* Model of the login rate limiter (src/lib/rate-limit.ts) and of the      *)
(* adminLogin server action that uses it (src/lib/actions/auth.ts).        *)
(* Time is Date.now() in milliseconds.  Every exported function of the     *)
(* limiter is synchronous, so each call is one atomic step of the          *)
(* single-threaded event loop; adminLogin suspends only at its awaits.     *)
(***************************************************************************)
EXTENDS Integers, Sequences, FiniteSets, TLC

\* ---------------------------------------------------------------- CONFIG
WINDOW_MS == 15 * 60 * 1000
MAX_ATTEMPTS == 5
BLOCK_DURATION_MS == 30 * 60 * 1000
CLEANUP_INTERVAL_MS == 5 * 60 * 1000

\* ---------------------------------------------------------------- bounds
\* the clock reads k * WINDOW_MS or k * WINDOW_MS + 1, with k <= MaxLongTicks
MaxLongTicks == 2

Ids == {"a", "b"}

VARIABLES
  now,            \* Date.now()
  loginAttempts,  \* Map<string, RateLimitRecord>
  sinceCleanup,   \* time since the interval timer was armed or last fired, up to the interval
  call,           \* the last limiter call: its name, identifier and result
  streak,         \* per identifier: recordFailedAttempt calls since it last had no record
  hist,           \* per identifier: the latest recordFailedAttempt calls since its last clear
  inv,            \* per request slot: the adminLogin invocation running in it
  returned,       \* the adminLogin invocation that returned in the latest limiter-calling step
  shadow,         \* the same limiter calls made on a store that no timer callback touches
  attempts        \* per identifier: signIn calls in the current window since the last success

vars == <<now, loginAttempts, sinceCleanup, call, streak, hist, inv, returned, shadow, attempts>>

\* ---------------------------------------------------------------- helpers
\* Math.ceil(x / d) for integers, d > 0
Ceil(x, d) == (x + d - 1) \div d

NoMessage == [kind |-> "none", n |-> 0]
Message(k, n) == [kind |-> k, n |-> n]

Has(store, id) == id \in DOMAIN store
MapSet(store, id, r) == [x \in (DOMAIN store) \cup {id} |-> IF x = id THEN r ELSE store[x]]
MapDelete(store, id) == [x \in (DOMAIN store) \ {id} |-> store[x]]

Result(s, rem, reset, b, m) ==
  [success |-> s, remaining |-> rem, resetIn |-> reset, blocked |-> b, message |-> m]

\* ---------------------------------------------------------------- checkRateLimit
\* line 72 with `>=` for `>`: a block still counts at the instant it ends
CheckBlockActive_Inclusive(record, t) == record.blocked /\ record.blockedUntil >= t

\* record?.blocked && record.blockedUntil > now
CheckBlockActive(record, t) == record.blocked /\ record.blockedUntil > t

\* lines 82-84 dropping every record that is no longer current
StoreAfterCheck_DropsStale(store, id, t) ==
  IF Has(store, id) /\ (store[id].blocked \/ t - store[id].firstAttempt > WINDOW_MS)
  THEN MapDelete(store, id)
  ELSE store

\* the store once a check has got past the blocked branch: an expired block is deleted
StoreAfterCheck(store, id, t) ==
  IF Has(store, id) /\ store[id].blocked THEN MapDelete(store, id) ELSE store

\* lines 89-94 with the remaining of recordFailedAttempt's fresh branch
AllowFresh_OneUsed == Result(TRUE, MAX_ATTEMPTS - 1, Ceil(WINDOW_MS, 1000), FALSE, NoMessage)

\* the decision for an identifier without a current record
AllowFresh == Result(TRUE, MAX_ATTEMPTS, Ceil(WINDOW_MS, 1000), FALSE, NoMessage)

\* the decision while a block lasts (same shape in both functions)
DenyBlocked(record, t) ==
  LET resetIn == Ceil(record.blockedUntil - t, 1000)
  IN Result(FALSE, 0, resetIn, TRUE, Message("blockedWait", Ceil(resetIn, 60)))

CheckRateLimit(store, id, t) ==
  IF Has(store, id) /\ CheckBlockActive(store[id], t)
  THEN [store |-> store, result |-> DenyBlocked(store[id], t)]
  ELSE LET store2 == StoreAfterCheck(store, id, t)
       IN IF ~Has(store2, id) \/ t - store2[id].firstAttempt > WINDOW_MS
          THEN [store |-> store2, result |-> AllowFresh]
          ELSE LET record == store2[id]
                   remaining == MAX_ATTEMPTS - record.count
                   resetIn == Ceil(record.firstAttempt + WINDOW_MS - t, 1000)
               IN IF remaining <= 0
                  THEN [store |-> store2,
                        result |-> Result(FALSE, 0, resetIn, FALSE, Message("exhausted", 0))]
                  ELSE [store |-> store2,
                        result |-> Result(TRUE, remaining, resetIn, FALSE, NoMessage)]

\* ---------------------------------------------------------------- recordFailedAttempt
\* line 138 with the block duration for the window
RecordWindowExpired_BlockSpan(record, t) == t - record.firstAttempt > BLOCK_DURATION_MS

\* line 138 with `>=` for `>`: the window is over one millisecond early
RecordWindowExpired_Inclusive(record, t) == t - record.firstAttempt >= WINDOW_MS

\* now - record.firstAttempt > CONFIG.WINDOW_MS
RecordWindowExpired(record, t) == t - record.firstAttempt > WINDOW_MS

\* lines 157-158 working on a copy: the increment never reaches the stored record
Bump_Lost(record, t) == [record EXCEPT !.lastAttempt = t]

\* record.count += 1; record.lastAttempt = now
Bump(record, t) == [record EXCEPT !.count = @ + 1, !.lastAttempt = t]

\* line 161 with the limit one too low
ReachedLimit_Early(count) == count >= MAX_ATTEMPTS - 1

\* line 161 with `>` for `>=`
ReachedLimit_Strict(count) == count > MAX_ATTEMPTS

\* record.count >= CONFIG.MAX_ATTEMPTS
ReachedLimit(count) == count >= MAX_ATTEMPTS

\* line 184 with `<` for `<=`
Warning_Strict(remaining) ==
  IF remaining < 2 THEN Message("remaining", remaining) ELSE NoMessage

\* remaining <= 2 ? `... ${remaining} ...` : undefined
Warning(remaining) ==
  IF remaining <= 2 THEN Message("remaining", remaining) ELSE NoMessage

FreshRecord(t) ==
  [count |-> 1, firstAttempt |-> t, lastAttempt |-> t, blocked |-> FALSE, blockedUntil |-> 0]

\* line 126 left out: a blocked identifier is handled like any other
RecordBlockActive_Never(record, t) == FALSE

\* record?.blocked && record.blockedUntil > now
RecordBlockActive(record, t) == record.blocked /\ record.blockedUntil > t

\* line 163 without `now +`
Block_NoNow(record, t) ==
  [record EXCEPT !.blocked = TRUE, !.blockedUntil = BLOCK_DURATION_MS]

\* record.blocked = true; record.blockedUntil = now + CONFIG.BLOCK_DURATION_MS
Block(record, t) ==
  [record EXCEPT !.blocked = TRUE, !.blockedUntil = t + BLOCK_DURATION_MS]

RecordFailedAttempt(store, id, t) ==
  IF Has(store, id) /\ RecordBlockActive(store[id], t)
  THEN [store |-> store, result |-> DenyBlocked(store[id], t)]
  ELSE IF ~Has(store, id) \/ RecordWindowExpired(store[id], t)
  THEN [store |-> MapSet(store, id, FreshRecord(t)),
        result |-> Result(TRUE, MAX_ATTEMPTS - 1, Ceil(WINDOW_MS, 1000), FALSE, NoMessage)]
  ELSE LET record == Bump(store[id], t)
       IN IF ReachedLimit(record.count)
          THEN LET resetIn == Ceil(BLOCK_DURATION_MS, 1000)
               IN [store |-> MapSet(store, id, Block(record, t)),
                   result |-> Result(FALSE, 0, resetIn, TRUE, Message("lockout", Ceil(resetIn, 60)))]
          ELSE LET remaining == MAX_ATTEMPTS - record.count
               IN [store |-> MapSet(store, id, record),
                   result |-> Result(TRUE, remaining,
                                     Ceil(record.firstAttempt + WINDOW_MS - t, 1000), FALSE,
                                     Warning(remaining))]

\* ---------------------------------------------------------------- clearRateLimit
\* line 193 guarded so that a block survives a successful login
ClearRateLimit_KeepsBlock(store, id) ==
  IF Has(store, id) /\ store[id].blocked THEN store ELSE MapDelete(store, id)

\* line 193 as loginAttempts.clear()
ClearRateLimit_All(store, id) == << >>

ClearRateLimit(store, id) == MapDelete(store, id)

\* ---------------------------------------------------------------- setInterval callback
\* line 42 with `<=` for `<`
Reaped_BlockInclusive(record, t) ==
  \/ record.blocked /\ record.blockedUntil <= t
  \/ ~record.blocked /\ t - record.firstAttempt > WINDOW_MS

\* line 44 with `>=` for `>`
Reaped_WindowInclusive(record, t) ==
  \/ record.blocked /\ record.blockedUntil < t
  \/ ~record.blocked /\ t - record.firstAttempt >= WINDOW_MS

\* lines 42-43 left out: blocks are never reclaimed
Reaped_KeepsBlocks(record, t) ==
  ~record.blocked /\ t - record.firstAttempt > WINDOW_MS

Reaped(record, t) ==
  \/ record.blocked /\ record.blockedUntil < t
  \/ ~record.blocked /\ t - record.firstAttempt > WINDOW_MS

CleanupPass(store, t) ==
  [x \in {k \in DOMAIN store : ~Reaped(store[k], t)} |-> store[x]]

\* ---------------------------------------------------------------- ghost bookkeeping
\* how a call finds the record of its identifier
PreState(store, id, t) ==
  IF ~Has(store, id) THEN "none"
  ELSE IF store[id].blocked
       THEN (IF store[id].blockedUntil > t THEN "blocked" ELSE "expired")
       ELSE (IF t - store[id].firstAttempt > WINDOW_MS THEN "stale" ELSE "active")

NoResult == Result(TRUE, 0, 0, FALSE, NoMessage)
NoCall == [op |-> "none", id |-> "", pre |-> "none", after |-> "-", result |-> NoResult]
NoStreak == [n |-> 0, first |-> 0, last |-> 0]
NoAttempts == [n |-> 0, first |-> 0]

\* number of recordFailedAttempt calls on id since id last had no record
\* (saturating), with the times of the first and the latest of them
StreakAfter(id) ==
  IF ~Has(loginAttempts, id)
  THEN [n |-> 1, first |-> now, last |-> now]
  ELSE [n |-> IF streak[id].n > MAX_ATTEMPTS THEN streak[id].n ELSE streak[id].n + 1,
        first |-> streak[id].first, last |-> now]

\* an identifier whose record is gone has no calls to count
StreakOver(store) == [i \in Ids |-> IF Has(store, i) THEN streak[i] ELSE NoStreak]

\* ---------------------------------------------------------------- limiter calls
DoCheck(id) ==
  LET r == CheckRateLimit(loginAttempts, id, now)
  IN /\ loginAttempts' = r.store
     /\ call' = [op |-> "check", id |-> id, pre |-> PreState(loginAttempts, id, now),
                 after |-> IF call.op = "clear" /\ call.id = id THEN call.pre ELSE "-",
                 result |-> r.result]
     /\ streak' = StreakOver(r.store)

DoRecordFailure(id) ==
  LET r == RecordFailedAttempt(loginAttempts, id, now)
  IN /\ loginAttempts' = r.store
     /\ call' = [op |-> "recordFailure", id |-> id, pre |-> PreState(loginAttempts, id, now),
                 after |-> "-", result |-> r.result]
     /\ streak' = [streak EXCEPT ![id] = StreakAfter(id)]

DoClear(id) ==
  /\ loginAttempts' = ClearRateLimit(loginAttempts, id)
  /\ call' = [op |-> "clear", id |-> id, pre |-> PreState(loginAttempts, id, now),
              after |-> "-", result |-> NoResult]
  /\ streak' = StreakOver(loginAttempts')

\* ---------------------------------------------------------------- state machine
Procs == {"p1", "p2"}
Idle == [pc |-> "idle", clientIP |-> "", password |-> "", rateLimit |-> NoResult,
         failResult |-> NoResult, outcome |-> "-", events |-> << >>]

Init ==
  /\ now = 0
  /\ loginAttempts = << >>
  /\ sinceCleanup = 0
  /\ call = NoCall
  /\ streak = [i \in Ids |-> NoStreak]
  /\ hist = [i \in Ids |-> << >>]
  /\ inv = [p \in Procs |-> Idle]
  /\ returned = Idle
  /\ shadow = [store |-> << >>, result |-> NoResult]
  /\ attempts = [i \in Ids |-> NoAttempts]

\* the time the timer has been waiting, once dt more has passed
Waited(dt) ==
  IF sinceCleanup + dt >= CLEANUP_INTERVAL_MS THEN CLEANUP_INTERVAL_MS ELSE sinceCleanup + dt

\* one millisecond passes (once, off a multiple of the window)
TickShort ==
  /\ now % WINDOW_MS = 0
  /\ now' = now + 1
  /\ sinceCleanup' = Waited(1)
  /\ UNCHANGED <<loginAttempts, call, streak, hist, inv, returned, shadow, attempts>>

\* a whole window passes
TickLong ==
  /\ now \div WINDOW_MS < MaxLongTicks
  /\ now' = now + WINDOW_MS
  /\ sinceCleanup' = Waited(WINDOW_MS)
  /\ UNCHANGED <<loginAttempts, call, streak, hist, inv, returned, shadow, attempts>>

\* the interval timer fires, no earlier than CLEANUP_INTERVAL_MS after the last time
Cleanup ==
  /\ sinceCleanup >= CLEANUP_INTERVAL_MS
  /\ loginAttempts' = CleanupPass(loginAttempts, now)
  /\ sinceCleanup' = 0
  /\ call' = [op |-> "cleanup", id |-> "", pre |-> "none", after |-> "-", result |-> NoResult]
  /\ streak' = StreakOver(loginAttempts')
  /\ UNCHANGED <<now, hist, inv, returned, shadow, attempts>>

Check(id) == DoCheck(id) /\ UNCHANGED <<now, sinceCleanup, hist, inv, returned, shadow, attempts>>

RecordFailure(id) == DoRecordFailure(id) /\ UNCHANGED <<now, sinceCleanup, hist, inv, returned, shadow, attempts>>

Clear(id) == DoClear(id) /\ UNCHANGED <<now, sinceCleanup, hist, inv, returned, shadow, attempts>>

Next ==
  \/ TickShort
  \/ TickLong
  \/ \E id \in Ids : Check(id)
  \/ \E id \in Ids : RecordFailure(id)
  \/ \E id \in Ids : Clear(id)
  \/ Cleanup

Spec == Init /\ [][Next]_vars

\* ---------------------------------------------------------------- sliding-window bookkeeping
\* the latest MAX_ATTEMPTS recordFailedAttempt calls on id since its last clear:
\* time, whether the call created the record, whether it answered blocked
HistAfter(id, r) ==
  LET e == [t |-> now,
            fresh |-> PreState(loginAttempts, id, now) \in {"none", "stale", "expired"},
            blocked |-> r.blocked]
      h == Append(hist[id], e)
  IN IF Len(h) > MAX_ATTEMPTS THEN Tail(h) ELSE h

HistCheck(id) == DoCheck(id) /\ UNCHANGED <<now, sinceCleanup, hist, inv, returned, shadow, attempts>>

HistRecordFailure(id) ==
  /\ DoRecordFailure(id)
  /\ hist' = [hist EXCEPT ![id] = HistAfter(id, RecordFailedAttempt(loginAttempts, id, now).result)]
  /\ UNCHANGED <<now, sinceCleanup, inv, returned, shadow, attempts>>

HistClear(id) ==
  /\ DoClear(id)
  /\ hist' = [hist EXCEPT ![id] = << >>]
  /\ UNCHANGED <<now, sinceCleanup, inv, returned, shadow, attempts>>

\* the history is kept for the calls of one client
HistIds == {"a"}

NextHist ==
  \/ TickShort
  \/ TickLong
  \/ \E id \in HistIds : HistCheck(id)
  \/ \E id \in HistIds : HistRecordFailure(id)
  \/ \E id \in HistIds : HistClear(id)
  \/ Cleanup

SpecHist == Init /\ [][NextHist]_vars

\* ---------------------------------------------------------------- the limiter without its timer
\* each call is made on loginAttempts and, at the same instant, on shadow.store;
\* the timer callback runs on loginAttempts only
ShadowCheck(id) ==
  LET r == CheckRateLimit(shadow.store, id, now)
  IN /\ DoCheck(id)
     /\ shadow' = [store |-> r.store, result |-> r.result]
     /\ UNCHANGED <<now, sinceCleanup, hist, inv, returned, attempts>>

ShadowRecordFailure(id) ==
  LET r == RecordFailedAttempt(shadow.store, id, now)
  IN /\ DoRecordFailure(id)
     /\ shadow' = [store |-> r.store, result |-> r.result]
     /\ UNCHANGED <<now, sinceCleanup, hist, inv, returned, attempts>>

ShadowClear(id) ==
  /\ DoClear(id)
  /\ shadow' = [store |-> ClearRateLimit(shadow.store, id), result |-> NoResult]
  /\ UNCHANGED <<now, sinceCleanup, hist, inv, returned, attempts>>

ShadowIds == {"a"}

NextShadow ==
  \/ TickShort
  \/ TickLong
  \/ \E id \in ShadowIds : ShadowCheck(id)
  \/ \E id \in ShadowIds : ShadowRecordFailure(id)
  \/ \E id \in ShadowIds : ShadowClear(id)
  \/ Cleanup

SpecShadow == Init /\ [][NextShadow]_vars

\* setInterval fires the callback again and again while the clock advances;
\* no call of the limiter is ever required to happen
SpecLive == Init /\ [][NextShadow]_vars /\ WF_vars(TickLong) /\ WF_vars(Cleanup)

\* ---------------------------------------------------------------- adminLogin
Passwords == {"", "secret"}
\* how signIn settles: no error, result.error, or a throw (of any error)
Outcomes == {"ok", "error", "throws"}

\* line 34 without its negation's effect: a denied request is let through
Rejected_Never(rateLimit) == FALSE

\* if (!rateLimit.success) return ...
Rejected(rateLimit) == ~rateLimit.success

\* loginSchema.safeParse: password must have at least one character
Parsed(password) == password # ""

\* the invocation starts and suspends at `await headers()`
AdminLogin(p, password) ==
  /\ inv[p].pc = "idle"
  /\ inv' = [inv EXCEPT ![p] = [Idle EXCEPT !.pc = "headers", !.password = password]]
  /\ UNCHANGED <<now, loginAttempts, sinceCleanup, call, streak, hist, returned, shadow, attempts>>

\* from getClientIP to the first return or to the suspension at `await signIn`
HeadersResolved(p, ip) ==
  LET rateLimit == CheckRateLimit(loginAttempts, ip, now).result
      checked == [inv[p] EXCEPT !.clientIP = ip, !.rateLimit = rateLimit,
                                !.events = <<"checkRateLimit">>]
  IN /\ inv[p].pc = "headers"
     /\ DoCheck(ip)
     /\ IF Rejected(rateLimit) \/ ~Parsed(inv[p].password)
        THEN /\ inv' = [inv EXCEPT ![p] = Idle]
             /\ returned' = [checked EXCEPT !.pc = "idle"]
        ELSE /\ inv' = [inv EXCEPT ![p] = [checked EXCEPT !.pc = "signIn",
                                                          !.events = Append(@, "signIn")]]
             /\ returned' = Idle
     /\ UNCHANGED <<now, sinceCleanup, hist, shadow>>

AfterHeaders(p, ip) ==
  /\ HeadersResolved(p, ip)
  /\ UNCHANGED attempts

\* signIn settles with no error: clearRateLimit and the success return
SignInOk(p) ==
  /\ inv[p].pc = "signIn"
  /\ DoClear(inv[p].clientIP)
  /\ inv' = [inv EXCEPT ![p] = Idle]
  /\ returned' = [inv[p] EXCEPT !.pc = "idle", !.outcome = "ok",
                                !.events = Append(@, "clearRateLimit")]
  /\ UNCHANGED <<now, sinceCleanup, hist, shadow>>

SignInSucceeds(p) ==
  /\ SignInOk(p)
  /\ UNCHANGED attempts

\* signIn returns an error or throws: recordFailedAttempt and a failure return
SignInFails(p, outcome) ==
  LET failResult == RecordFailedAttempt(loginAttempts, inv[p].clientIP, now).result
  IN /\ inv[p].pc = "signIn"
     /\ outcome # "ok"
     /\ DoRecordFailure(inv[p].clientIP)
     /\ inv' = [inv EXCEPT ![p] = Idle]
     /\ returned' = [inv[p] EXCEPT !.pc = "idle", !.outcome = outcome,
                                   !.failResult = failResult,
                                   !.events = Append(@, "recordFailedAttempt")]
     /\ UNCHANGED <<now, sinceCleanup, hist, shadow, attempts>>

\* the requests modelled come from one client
LoginIds == {"a"}

NextLogin ==
  \/ TickShort
  \/ TickLong
  \/ Cleanup
  \/ \E p \in Procs, password \in Passwords : AdminLogin(p, password)
  \/ \E p \in Procs, ip \in LoginIds : AfterHeaders(p, ip)
  \/ \E p \in Procs : SignInSucceeds(p)
  \/ \E p \in Procs, outcome \in Outcomes : SignInFails(p, outcome)

SpecLogin == Init /\ [][NextLogin]_vars

\* ---------------------------------------------------------------- adminLogin, signIn calls counted
\* the signIn calls made for id, counted from the first of them, as long as they
\* fall within WINDOW_MS of that first one (saturating above MAX_ATTEMPTS)
AttemptsAfter(id) ==
  IF attempts[id].n = 0 \/ now - attempts[id].first > WINDOW_MS
  THEN [n |-> 1, first |-> now]
  ELSE [n |-> IF attempts[id].n > MAX_ATTEMPTS THEN attempts[id].n ELSE attempts[id].n + 1,
        first |-> attempts[id].first]

\* the same step as AfterHeaders; reaching `await signIn` is counted
CountedAfterHeaders(p, ip) ==
  /\ HeadersResolved(p, ip)
  /\ attempts' = IF inv'[p].pc = "signIn"
                 THEN [attempts EXCEPT ![ip] = AttemptsAfter(ip)]
                 ELSE attempts

\* the same step as SignInSucceeds; a successful login starts the count afresh
CountedSignInSucceeds(p) ==
  /\ SignInOk(p)
  /\ attempts' = [attempts EXCEPT ![inv[p].clientIP] = NoAttempts]

NextCounted ==
  \/ TickShort
  \/ TickLong
  \/ Cleanup
  \/ \E p \in Procs, password \in Passwords : AdminLogin(p, password)
  \/ \E p \in Procs, ip \in LoginIds : CountedAfterHeaders(p, ip)
  \/ \E p \in Procs : CountedSignInSucceeds(p)
  \/ \E p \in Procs, outcome \in Outcomes : SignInFails(p, outcome)

SpecCounted == Init /\ [][NextCounted]_vars

\* ---------------------------------------------------------------- properties
\* C1: counted from no record, the first MAX_ATTEMPTS - 1 calls of
\* recordFailedAttempt made within the window are allowed and not blocked, the
\* MAX_ATTEMPTS-th is blocked and not allowed, and a check that finds the block
\* unexpired is denied with blocked = true and remaining = 0.
C1_BlockedAtMaxAttempts ==
  /\ \A id \in Ids :
       (/\ call.op = "recordFailure" /\ call.id = id
        /\ streak[id].n \in 1..MAX_ATTEMPTS
        /\ streak[id].last - streak[id].first <= WINDOW_MS)
       => IF streak[id].n = MAX_ATTEMPTS
          THEN call.result.blocked /\ ~call.result.success
          ELSE call.result.success /\ ~call.result.blocked
  /\ (call.op = "check" /\ call.pre = "blocked")
       => ~call.result.success /\ call.result.blocked /\ call.result.remaining = 0
  /\ \A id \in Ids :
       (Has(loginAttempts, id) /\ loginAttempts[id].blocked
          /\ now < loginAttempts[id].blockedUntil)
       => LET d == CheckRateLimit(loginAttempts, id, now).result
          IN ~d.success /\ d.blocked /\ d.remaining = 0

\* a check made later than the blocking call, while the block lasts, was denied
C1_Witness ==
  /\ call.op = "check" /\ call.pre = "blocked" /\ call.result.blocked
  /\ streak[call.id].n = MAX_ATTEMPTS
  /\ now > streak[call.id].last

\* C2: a call that finds a block with blockedUntil <= now answers as for an
\* identifier without history: check allows with remaining = MAX_ATTEMPTS,
\* recordFailedAttempt allows with remaining = MAX_ATTEMPTS - 1 and leaves a
\* record with count = 1, blocked = false and firstAttempt = the call's time.
C2_ExpiredBlockIsNoHistory ==
  /\ (call.op = "check" /\ call.pre = "expired")
       => /\ call.result.success /\ call.result.remaining = MAX_ATTEMPTS
          /\ call.result = CheckRateLimit(<< >>, call.id, now).result
  /\ (call.op = "recordFailure" /\ call.pre = "expired")
       => LET t == streak[call.id].last
              none == RecordFailedAttempt(<< >>, call.id, t)
          IN /\ call.result.success /\ call.result.remaining = MAX_ATTEMPTS - 1
             /\ call.result = none.result
             /\ Has(loginAttempts, call.id)
             /\ loginAttempts[call.id] = none.store[call.id]
             /\ loginAttempts[call.id].count = 1
             /\ ~loginAttempts[call.id].blocked
             /\ loginAttempts[call.id].firstAttempt = t
  /\ \A id \in Ids :
       PreState(loginAttempts, id, now) = "expired"
       => /\ CheckRateLimit(loginAttempts, id, now).result
               = CheckRateLimit(MapDelete(loginAttempts, id), id, now).result
          /\ RecordFailedAttempt(loginAttempts, id, now)
               = RecordFailedAttempt(MapDelete(loginAttempts, id), id, now)

\* a failure was recorded on a record whose block had run out and was still stored
C2_Witness ==
  /\ call.op = "recordFailure" /\ call.pre = "expired"
  /\ loginAttempts[call.id].firstAttempt = now

\* C3 as stated: no check step changes the store.
C3_CheckNeverMutates ==
  [][call'.op = "check" => loginAttempts' = loginAttempts]_vars

\* C3 as amended: the only change a check makes to the store is to delete the
\* record of its own identifier when it finds that record blocked with
\* blockedUntil <= now (and then it does delete it).
C3_CheckOnlyDropsExpiredBlock ==
  [][/\ (call'.op = "check" /\ loginAttempts' # loginAttempts)
          => /\ PreState(loginAttempts, call'.id, now) = "expired"
             /\ loginAttempts' = MapDelete(loginAttempts, call'.id)
     /\ (call'.op = "check" /\ call'.pre = "expired")
          => ~Has(loginAttempts', call'.id)
     /\ (call'.op = "check" /\ call'.pre # "expired" /\ call' # call)
          => loginAttempts' = loginAttempts]_vars

\* a check has found and deleted an expired block while another record stayed
C3_Witness ==
  /\ call.op = "check" /\ call.pre = "expired"
  /\ ~Has(loginAttempts, call.id)
  /\ DOMAIN loginAttempts # {}

\* C6: after clear(id) the identifier has no record, whatever clear found, and
\* the check that follows it directly is allowed with remaining = MAX_ATTEMPTS
\* and blocked = false.
C6_ClearThenCheckAllows ==
  /\ call.op = "clear" => ~Has(loginAttempts, call.id)
  /\ (call.op = "check" /\ call.after # "-")
       => /\ call.result.success /\ ~call.result.blocked
          /\ call.result.remaining = MAX_ATTEMPTS

\* a check directly after the clear of an unexpired block
C6_Witness == call.op = "check" /\ call.after = "blocked" /\ call.result.success

\* C7: check on an identifier without a record is allowed with
\* remaining = MAX_ATTEMPTS, blocked = false and resetIn = the window in seconds.
C7_NoRecordAllowsFully ==
  /\ (call.op = "check" /\ call.pre = "none")
       => /\ call.result.success /\ ~call.result.blocked
          /\ call.result.remaining = MAX_ATTEMPTS
          /\ call.result.resetIn * 1000 = WINDOW_MS
  /\ \A id \in Ids :
       ~Has(loginAttempts, id)
       => LET d == CheckRateLimit(loginAttempts, id, now).result
          IN /\ d.success /\ ~d.blocked /\ d.remaining = MAX_ATTEMPTS
             /\ d.resetIn * 1000 = WINDOW_MS

\* a never-recorded identifier was checked, late, while another one has a record
C7_Witness ==
  /\ call.op = "check" /\ call.pre = "none" /\ call.after = "-"
  /\ now > WINDOW_MS
  /\ DOMAIN loginAttempts # {}

\* C8: a check, recordFailedAttempt or clear on one identifier leaves the
\* record of every other identifier as it was (present or absent, all fields).
C8_IdentifierIsolation ==
  [][\A b \in Ids :
       (call'.op \in {"check", "recordFailure", "clear"} /\ call'.id # b)
       => /\ Has(loginAttempts', b) <=> Has(loginAttempts, b)
          /\ Has(loginAttempts, b) => loginAttempts'[b] = loginAttempts[b]]_vars

\* one identifier was cleared while another one is blocked
C8_Witness ==
  /\ call.op = "clear" /\ call.pre = "active"
  /\ \E b \in Ids \ {call.id} : Has(loginAttempts, b) /\ loginAttempts[b].blocked

\* C9: with MAX_ATTEMPTS = 5, counted from no record and within the window, the
\* k-th recordFailedAttempt returns success with remaining = 5 - k for k = 1..4,
\* with a message exactly when that remaining is <= 2; the 5th returns
\* success = false, blocked, remaining = 0, the lockout message and resetIn =
\* BLOCK_DURATION_MS in seconds; a check at the same instant is denied, blocked,
\* with the same resetIn.
C9_CountdownScenario ==
  /\ \A id \in Ids : \A k \in 1..5 :
       (/\ call.op = "recordFailure" /\ call.id = id
        /\ streak[id].n = k
        /\ streak[id].last - streak[id].first <= WINDOW_MS)
       => IF k < 5
          THEN /\ call.result.success /\ ~call.result.blocked
               /\ call.result.remaining = 5 - k
               /\ (call.result.message # NoMessage) <=> (5 - k <= 2)
               /\ (5 - k <= 2) => call.result.message = Message("remaining", 5 - k)
          ELSE /\ ~call.result.success /\ call.result.blocked
               /\ call.result.remaining = 0
               /\ call.result.message.kind = "lockout"
               /\ call.result.resetIn * 1000 = BLOCK_DURATION_MS
  /\ (/\ call.op = "check" /\ call.pre = "blocked"
      /\ loginAttempts[call.id].blockedUntil = now + BLOCK_DURATION_MS)
       => /\ ~call.result.success /\ call.result.blocked
          /\ call.result.resetIn * 1000 = BLOCK_DURATION_MS

\* the fifth failure in a row has just blocked the identifier and a check at
\* the same instant has been answered
C9_Witness ==
  /\ call.op = "check" /\ call.pre = "blocked"
  /\ streak[call.id].n = 5
  /\ streak[call.id].last = now
  /\ streak[call.id].first < now

\* C4 as stated (sliding window): when the latest MAX_ATTEMPTS
\* recordFailedAttempt calls on an identifier since its last clear span at most
\* WINDOW_MS, one of them has answered blocked.
C4_SlidingWindow ==
  \A id \in Ids :
    (Len(hist[id]) = MAX_ATTEMPTS
       /\ hist[id][MAX_ATTEMPTS].t - hist[id][1].t <= WINDOW_MS)
    => \E i \in 1..MAX_ATTEMPTS : hist[id][i].blocked

\* C4 as amended (fixed window anchored at the call that creates the record):
\* the same, provided the first of the MAX_ATTEMPTS calls created the record.
C4_FixedWindow ==
  \A id \in Ids :
    (Len(hist[id]) = MAX_ATTEMPTS
       /\ hist[id][1].fresh
       /\ hist[id][MAX_ATTEMPTS].t - hist[id][1].t <= WINDOW_MS)
    => \E i \in 1..MAX_ATTEMPTS : hist[id][i].blocked

\* five failures spread over exactly one window, the first creating the record
\* after an earlier window had lapsed, the last one blocking
C4_Witness ==
  \E id \in Ids :
    /\ Len(hist[id]) = MAX_ATTEMPTS
    /\ hist[id][1].fresh /\ hist[id][1].t > 0
    /\ hist[id][MAX_ATTEMPTS].t - hist[id][1].t = WINDOW_MS
    /\ hist[id][MAX_ATTEMPTS].blocked

\* C5: while fewer than MAX_ATTEMPTS recordFailedAttempt calls have been made
\* on an identifier since it had no record, all within the window of the first,
\* its record holds exactly that number as count, however the invocations that
\* made the calls overlapped.
C5_NoLostUpdate ==
  \A id \in Ids :
    (streak[id].n \in 1..(MAX_ATTEMPTS - 1)
       /\ streak[id].last - streak[id].first <= WINDOW_MS)
    => Has(loginAttempts, id) /\ loginAttempts[id].count = streak[id].n

\* an invocation whose check saw no usable record recorded the second failure,
\* so another invocation's failure fell between its check and its own
C5_Witness ==
  /\ returned.rateLimit.remaining = MAX_ATTEMPTS
  /\ returned.failResult.remaining = MAX_ATTEMPTS - 2
  /\ streak[returned.clientIP].n = 2
  /\ call.op = "recordFailure"
  /\ loginAttempts[returned.clientIP].count = 2

\* the calls an invocation has made so far keep the order of the handler
Before(e, x, y) == \A i \in 1..Len(e) : e[i] = y => \E j \in 1..(i - 1) : e[j] = x
Protocol(r) ==
  /\ Before(r.events, "checkRateLimit", "signIn")
  /\ r.pc = "signIn" => r.events = <<"checkRateLimit", "signIn">>
  /\ (r.events # << >> /\ ~r.rateLimit.success)
       => r.pc = "idle" /\ r.events = <<"checkRateLimit">>
  /\ Before(r.events, "signIn", "recordFailedAttempt")
  /\ Before(r.events, "signIn", "clearRateLimit")
  /\ (\E i \in 1..Len(r.events) : r.events[i] = "recordFailedAttempt")
       => r.outcome \in Outcomes \ {"ok"}
  /\ (\E i \in 1..Len(r.events) : r.events[i] = "clearRateLimit")
       => r.outcome = "ok"

\* C10: in every adminLogin invocation checkRateLimit comes before signIn; an
\* invocation whose check was denied has returned having called nothing else;
\* recordFailedAttempt is called only after signIn failed and clearRateLimit
\* only after it succeeded - and no limiter call is made outside this order.
C10_LoginProtocol ==
  /\ \A p \in Procs : Protocol(inv[p])
  /\ Protocol(returned)
  /\ call.op = "recordFailure"
       => /\ returned.events = <<"checkRateLimit", "signIn", "recordFailedAttempt">>
          /\ returned.clientIP = call.id /\ returned.outcome # "ok"
          /\ returned.rateLimit.success
  /\ call.op = "clear"
       => /\ returned.events = <<"checkRateLimit", "signIn", "clearRateLimit">>
          /\ returned.clientIP = call.id /\ returned.outcome = "ok"
          /\ returned.rateLimit.success
  /\ (call.op = "check" /\ ~call.result.success)
       => /\ returned.events = <<"checkRateLimit">>
          /\ returned.clientIP = call.id /\ returned.rateLimit = call.result

\* a blocked client was turned away at the check while another request of the
\* same client was still waiting for signIn
C10_Witness ==
  /\ call.op = "check" /\ call.result.blocked
  /\ returned.events = <<"checkRateLimit">>
  /\ \E p \in Procs : inv[p].pc = "signIn" /\ inv[p].clientIP = returned.clientIP

\* C11: the decisions of checkRateLimit and recordFailedAttempt are the same
\* with timer callbacks interleaved as for the same calls at the same instants
\* on a store no timer callback ever touched - for the call just made and for
\* whichever call comes next.
C11_ReaperNotNeeded ==
  /\ call.op \in {"check", "recordFailure"} => call.result = shadow.result
  /\ \A id \in ShadowIds :
       /\ CheckRateLimit(loginAttempts, id, now).result
            = CheckRateLimit(shadow.store, id, now).result
       /\ RecordFailedAttempt(loginAttempts, id, now).result
            = RecordFailedAttempt(shadow.store, id, now).result

\* a record the timer callback removed is still in the untouched store, and a
\* check of that identifier has been answered alike on both
C11_Witness ==
  /\ call.op = "check" /\ call.result = shadow.result
  /\ ~Has(loginAttempts, call.id)
  /\ Has(shadow.store, call.id)

\* C12: every stored record with blocked = true has blockedUntil > firstAttempt.
C12_BlockedUntilAfterFirstAttempt ==
  \A id \in Ids :
    (Has(loginAttempts, id) /\ loginAttempts[id].blocked)
    => loginAttempts[id].blockedUntil > loginAttempts[id].firstAttempt

\* a block set late in its window, at the last instant the clock reaches
C12_Witness ==
  \E id \in Ids :
    /\ Has(loginAttempts, id) /\ loginAttempts[id].blocked
    /\ loginAttempts[id].lastAttempt = loginAttempts[id].firstAttempt + WINDOW_MS
    /\ loginAttempts[id].firstAttempt > 0

\* C13: a step that raises the count of a stored record raises it by one, on a
\* record that is not blocked and whose window is still running; a
\* recordFailedAttempt that finds the record blocked, expired or not, raises
\* no count.
C13_IncrementOnlyInActiveWindow ==
  [][\A id \in Ids :
       /\ (Has(loginAttempts, id) /\ Has(loginAttempts', id)
             /\ loginAttempts'[id].count > loginAttempts[id].count)
            => /\ ~loginAttempts[id].blocked
               /\ now - loginAttempts[id].firstAttempt <= WINDOW_MS
               /\ loginAttempts'[id].count = loginAttempts[id].count + 1
               /\ call'.op = "recordFailure" /\ call'.id = id
       /\ (Has(loginAttempts, id) /\ loginAttempts[id].blocked /\ Has(loginAttempts', id))
            => loginAttempts'[id].count <= loginAttempts[id].count]_vars

\* a failure recorded over a block that had run out: the count restarted at 1
C13_Witness ==
  /\ call.op = "recordFailure" /\ call.pre = "expired"
  /\ loginAttempts[call.id].count = 1
  /\ streak[call.id].n > MAX_ATTEMPTS

\* C14: every stored record has 1 <= count <= MAX_ATTEMPTS and is blocked
\* exactly when count = MAX_ATTEMPTS; no check answers with the
\* window-exhaustion denial (success = false, blocked = false).
C14_CountBoundsAndNoExhaustionDeny ==
  /\ \A id \in Ids :
       Has(loginAttempts, id)
       => /\ loginAttempts[id].count \in 1..MAX_ATTEMPTS
          /\ loginAttempts[id].blocked <=> (loginAttempts[id].count = MAX_ATTEMPTS)
          /\ LET d == CheckRateLimit(loginAttempts, id, now).result
             IN ~(~d.success /\ ~d.blocked)
  /\ call.op = "check" => ~(~call.result.success /\ ~call.result.blocked)

\* a check on a record one failure short of the limit was still allowed
C14_Witness ==
  /\ call.op = "check" /\ call.pre = "active"
  /\ call.result.success /\ call.result.remaining = 1
  /\ loginAttempts[call.id].count = MAX_ATTEMPTS - 1

\* C15: recordFailedAttempt on a record that is blocked with blockedUntil > now
\* returns what checkRateLimit returns at that instant (success = false,
\* remaining = 0, blocked = true, resetIn = the seconds until blockedUntil,
\* rounded up) and leaves the store as it was.
C15_BlockedReentryIsCheck ==
  [][/\ \A id \in Ids :
          PreState(loginAttempts, id, now) = "blocked"
          => LET r == RecordFailedAttempt(loginAttempts, id, now)
                 left == loginAttempts[id].blockedUntil - now
             IN /\ r.store = loginAttempts
                /\ r.result = CheckRateLimit(loginAttempts, id, now).result
                /\ ~r.result.success /\ r.result.blocked /\ r.result.remaining = 0
                /\ (r.result.resetIn - 1) * 1000 < left
                /\ left <= r.result.resetIn * 1000
     /\ (call'.op = "recordFailure"
           /\ PreState(loginAttempts, call'.id, now) = "blocked")
          => /\ loginAttempts' = loginAttempts
             /\ ~call'.result.success /\ call'.result.blocked
             /\ call'.result.remaining = 0]_vars

\* a failure was recorded during a block, later than the blocking call, at an
\* instant that is not a whole number of seconds from the end of the block
C15_Witness ==
  /\ call.op = "recordFailure" /\ call.pre = "blocked"
  /\ streak[call.id].n = MAX_ATTEMPTS + 1
  /\ streak[call.id].last > loginAttempts[call.id].lastAttempt
  /\ (loginAttempts[call.id].blockedUntil - streak[call.id].last) % 1000 # 0

\* a record the timer callback discards: a block whose blockedUntil lies
\* before t, or an unblocked record whose window ended before t
Elapsed(record, t) ==
  IF record.blocked THEN record.blockedUntil < t
  ELSE t - record.firstAttempt > WINDOW_MS

\* C16: a pass of the timer callback removes exactly the records with
\* blocked = true and blockedUntil < now and those with blocked = false and
\* now - firstAttempt > WINDOW_MS; every other record stays as it was.
C16_ReaperRemovesExactlyElapsed ==
  [][(sinceCleanup >= CLEANUP_INTERVAL_MS /\ sinceCleanup' = 0)
       => \A id \in Ids :
            /\ Has(loginAttempts', id)
                 <=> (Has(loginAttempts, id) /\ ~Elapsed(loginAttempts[id], now))
            /\ Has(loginAttempts', id) => loginAttempts'[id] = loginAttempts[id]]_vars

\* a pass has run at the very instant a block ended and the record is still
\* stored, while the other identifier has no record
C16_Witness ==
  /\ call.op = "cleanup" /\ sinceCleanup = 0
  /\ \E id \in Ids :
       /\ Has(loginAttempts, id) /\ loginAttempts[id].blocked
       /\ loginAttempts[id].blockedUntil = now
  /\ \E id \in Ids : ~Has(loginAttempts, id)

\* a pass of the timer callback is still to come: one is due, or the clock has
\* a whole window left to run
TimerPending ==
  sinceCleanup >= CLEANUP_INTERVAL_MS \/ now \div WINDOW_MS < MaxLongTicks

\* C17: with the timer firing again and again as time advances, a record whose
\* block has elapsed, or whose window has elapsed with the record not blocked,
\* does not stay: it is eventually out of the store (or replaced by a record
\* that has not elapsed), whether or not the limiter is ever called again.
C17_ElapsedEventuallyRemoved ==
  \A id \in ShadowIds :
    (Has(loginAttempts, id) /\ Elapsed(loginAttempts[id], now) /\ TimerPending)
      ~> (~Has(loginAttempts, id) \/ ~Elapsed(loginAttempts[id], now))

\* the last thing that happened is a pass of the timer callback, and the record
\* of an elapsed block is gone though no call of the limiter has removed it
C17_Witness ==
  /\ call.op = "cleanup"
  /\ \E id \in ShadowIds :
       /\ ~Has(loginAttempts, id)
       /\ Has(shadow.store, id)
       /\ shadow.store[id].blocked
       /\ Elapsed(shadow.store[id], now)

\* C18 as stated: at most MAX_ATTEMPTS signIn calls are made for an identifier
\* within one window without a successful login in between.
C18_VerificationsBounded ==
  \A id \in Ids : attempts[id].n <= MAX_ATTEMPTS

TypeOK ==
  /\ now \in Nat
  /\ DOMAIN loginAttempts \subseteq Ids
====
